---- MODULE Spec2Model ----
EXTENDS Integers, Sequences, FiniteSets, TLC

(***************************************************************************)
(* Path strings.  A string is a sequence of characters; "Cargo.toml",      *)
(* "Cargo.lock" and ".." are single symbols of the alphabet, "/" is the    *)
(* separator.  The operators below follow std::path and str as the code    *)
(* uses them.                                                              *)
(***************************************************************************)
Sep == "/"

\* str::starts_with
StartsWith(s, pre) ==
    /\ Len(pre) <= Len(s)
    /\ SubSeq(s, 1, Len(pre)) = pre

\* &s[n..]   (the caller guards n <= Len(s); Rust panics otherwise)
SliceFrom(s, n) == SubSeq(s, n + 1, Len(s))

\* str::trim_left_matches(&['/', '\\'])
RECURSIVE TrimLeftSep(_)
TrimLeftSep(s) ==
    IF s # <<>> /\ Head(s) = Sep THEN TrimLeftSep(Tail(s)) ELSE s

RECURSIVE TrimRightSep(_)
TrimRightSep(s) ==
    IF s # <<>> /\ s[Len(s)] = Sep THEN TrimRightSep(SubSeq(s, 1, Len(s) - 1)) ELSE s

\* Path::is_relative
IsRelative(s) == s = <<>> \/ Head(s) # Sep

\* Path::components, without the root: separators collapse
RECURSIVE Components(_)
Components(s) ==
    LET t == TrimLeftSep(s) IN
    IF t = <<>> THEN <<>>
    ELSE LET n == CHOOSE k \in 1..Len(t) :
                     /\ \A i \in 1..k : t[i] # Sep
                     /\ (k = Len(t) \/ t[k + 1] = Sep)
         IN <<SubSeq(t, 1, n)>> \o Components(SliceFrom(t, n))

\* PartialEq for Path: same root, same components
PathEq(s, t) == IsRelative(s) = IsRelative(t) /\ Components(s) = Components(t)

\* PathBuf::pop: truncate to the parent; false (unchanged) when there is none
RECURSIVE DropLastComponent(_)
DropLastComponent(s) ==
    IF s = <<>> \/ s[Len(s)] = Sep THEN s
    ELSE DropLastComponent(SubSeq(s, 1, Len(s) - 1))

PathPop(s) ==
    LET t == TrimRightSep(s) IN
    IF t = <<>> THEN s
    ELSE LET d == TrimRightSep(DropLastComponent(t)) IN
         IF d = <<>> /\ ~IsRelative(s) THEN <<Sep>> ELSE d

\* PathBuf::push / Path::join
PathJoin(s, c) ==
    IF ~IsRelative(c) THEN c
    ELSE IF s = <<>> \/ s[Len(s)] = Sep THEN s \o c
    ELSE s \o <<Sep>> \o c


(***************************************************************************)
(* The file system.  files maps the canonical path of every regular file   *)
(* to its content, dirs is the set of canonical paths of the directories.  *)
(* A canonical path is absolute, has single separators and no "..".        *)
(***************************************************************************)
RootDir == <<Sep>>

\* canonical path string of a list of components
RECURSIVE CanonOf(_)
CanonOf(comps) ==
    IF comps = <<>> THEN <<>> ELSE <<Sep>> \o Head(comps) \o CanonOf(Tail(comps))

CanonStr(comps) == IF comps = <<>> THEN RootDir ELSE CanonOf(comps)

\* the OS resolving an absolute path: ".." steps to the parent, and every
\* component but the last must be an existing directory
RECURSIVE ResolveFrom(_, _, _)
ResolveFrom(cur, rest, ds) ==
    IF rest = <<>> THEN [ok |-> TRUE, p |-> CanonStr(cur)]
    ELSE IF CanonStr(cur) \notin ds THEN [ok |-> FALSE, p |-> CanonStr(cur)]
    ELSE IF Head(rest) = <<"..">>
         THEN ResolveFrom(IF cur = <<>> THEN cur ELSE SubSeq(cur, 1, Len(cur) - 1),
                          Tail(rest), ds)
         ELSE ResolveFrom(Append(cur, Head(rest)), Tail(rest), ds)

FsResolve(s, ds) == ResolveFrom(<<>>, Components(s), ds)

\* Path::exists, Path::is_file
PathExists(s, fm, ds) ==
    LET r == FsResolve(s, ds) IN r.ok /\ (r.p \in DOMAIN fm \/ r.p \in ds)

IsFile(s, fm, ds) ==
    LET r == FsResolve(s, ds) IN r.ok /\ r.p \in DOMAIN fm

\* canonical path p lies in the directory tree of canonical path root
Under(p, root) ==
    /\ StartsWith(p, root)
    /\ (Len(p) = Len(root) \/ p[Len(root) + 1] = Sep)

\* fs::create_dir_all on a path without "..": every prefix becomes a directory
RECURSIVE PrefixDirs(_, _)
PrefixDirs(cur, rest) ==
    IF rest = <<>> THEN {}
    ELSE {CanonStr(Append(cur, Head(rest)))} \cup PrefixDirs(Append(cur, Head(rest)), Tail(rest))

CreateDirAll(s, ds) == ds \cup PrefixDirs(<<>>, Components(s))

\* File::create + write, and the target side of fs::copy: the file at s holds c
PutFile(s, c, fm, ds) ==
    LET r == FsResolve(s, ds) IN
    IF r.ok THEN (r.p :> c) @@ fm ELSE fm

GetFile(s, fm, ds) == fm[FsResolve(s, ds).p]

\* TempDir's Drop: remove_dir_all of the directory
RemoveTreeFiles(root, fm) == [p \in {q \in DOMAIN fm : ~Under(q, root)} |-> fm[p]]
RemoveTreeDirs(root, ds) == {d \in ds : ~Under(d, root)}

(***************************************************************************)
(* Manifest documents.  A toml Value is a String or a Table; a Table maps  *)
(* keys to values.  An Option is a sequence of length 0 (None) or 1.       *)
(***************************************************************************)
EmptyTable == <<>>
VString(s) == [k |-> "String", s |-> s, t |-> EmptyTable]
VTable(t) == [k |-> "Table", s |-> <<>>, t |-> t]
Wildcard == <<"*">>
DependencyTables == {"dependencies", "dev-dependencies", "build-dependencies"}

\* Table::insert
Insert(t, key, v) == (key :> v) @@ t

\* the result of a mutation: ok = FALSE is a panic
Done(v) == [ok |-> TRUE, v |-> v]

\* variant: a table with a path is widened like any other
WildcardEntryNoPathGuard(original) ==
    IF original.k = "String" THEN VString(Wildcard)
    ELSE IF "version" \in DOMAIN original.t
         THEN VTable(Insert(original.t, "version", Wildcard))
         ELSE original

\* replace_version_with_wildcard, one entry
WildcardEntry(original) ==
    IF original.k = "String" THEN VString(Wildcard)
    ELSE IF "path" \in DOMAIN original.t THEN original
    ELSE IF "version" \in DOMAIN original.t
         THEN VTable(Insert(original.t, "version", Wildcard))
         ELSE original

replace_version_with_wildcard(dependencies) ==
    [ok |-> \A name \in DOMAIN dependencies : dependencies[name].k \in {"String", "Table"},
     v  |-> [name \in DOMAIN dependencies |-> WildcardEntry(dependencies[name])]]

\* replace_path_with_absolute: the directory of the manifest relative to the
\* sandbox root, joined with the dependency's path
RelativeOf(tmp_root, tmp_manifest, orig_path) ==
    PathJoin(PathPop(TrimLeftSep(SliceFrom(tmp_manifest, Len(tmp_root)))), orig_path)

\* whether an entry is one the rewrite looks at
HasRelativePath(original) ==
    /\ original.k = "Table"
    /\ "path" \in DOMAIN original.t
    /\ IsRelative(original.t["path"])

\* tmp_root.join(&relative).join("Cargo.toml").exists()
ResolvesInTmp(relative, tmp_root, fm, ds) ==
    PathExists(PathJoin(PathJoin(tmp_root, relative), <<"Cargo.toml">>), fm, ds)

\* fs::canonicalize(..).unwrap(): ok = FALSE is the panic on a path that does not exist
Canonicalized(original, r, fm, ds) ==
    [ok |-> r.ok /\ (r.p \in DOMAIN fm \/ r.p \in ds),
     v  |-> VTable(Insert(original.t, "path", r.p))]

\* variant: the path relative to the root is stored, not resolved against the original
AbsoluteIfOutsideUnresolved(original, relative, orig_root, tmp_root, fm, ds) ==
    IF ResolvesInTmp(relative, tmp_root, fm, ds) THEN Done(original)
    ELSE Done(VTable(Insert(original.t, "path", relative)))

AbsoluteIfOutside(original, relative, orig_root, tmp_root, fm, ds) ==
    IF ResolvesInTmp(relative, tmp_root, fm, ds) THEN Done(original)
    ELSE Canonicalized(original, FsResolve(PathJoin(orig_root, relative), ds), fm, ds)

\* replace_path_with_absolute, one entry
AbsolutePathEntry(original, orig_root, tmp_root, tmp_manifest, fm, ds) ==
    IF HasRelativePath(original)
    THEN AbsoluteIfOutside(original, RelativeOf(tmp_root, tmp_manifest, original.t["path"]),
                           orig_root, tmp_root, fm, ds)
    ELSE Done(original)

EntriesOf(results) ==
    [ok |-> \A name \in DOMAIN results : results[name].ok,
     v  |-> [name \in DOMAIN results |-> results[name].v]]

replace_path_with_absolute(dependencies, orig_root, tmp_root, tmp_manifest, fm, ds) ==
    EntriesOf([name \in DOMAIN dependencies |->
        AbsolutePathEntry(dependencies[name], orig_root, tmp_root, tmp_manifest, fm, ds)])

\* the closures handed to manipulate_dependencies
WildcardFn == [fn |-> "replace_version_with_wildcard"]
AbsoluteFn(orig_root, tmp_root, tmp_manifest, fm, ds) ==
    [fn |-> "replace_path_with_absolute", orig_root |-> orig_root, tmp_root |-> tmp_root,
     tmp_manifest |-> tmp_manifest, fm |-> fm, ds |-> ds]

\* f(dep_table)
Call(f, dependencies) ==
    IF f.fn = "replace_version_with_wildcard"
    THEN replace_version_with_wildcard(dependencies)
    ELSE replace_path_with_absolute(dependencies, f.orig_root, f.tmp_root,
                                    f.tmp_manifest, f.fm, f.ds)

\* Option::map over an optional dependency table
Some(r) == [ok |-> r.ok, v |-> <<r.v>>]

MapOption(o, f) == IF o = <<>> THEN Done(<<>>) ELSE Some(Call(f, o[1]))

InTable(r) == [ok |-> r.ok, v |-> VTable(r.v)]

\* one dependency table of a [target.<spec>] block
MapTargetTable(key, value, f) ==
    IF key \in DependencyTables /\ value.k = "Table"
    THEN InTable(Call(f, value.t))
    ELSE Done(value)

TableOf(results) ==
    [ok |-> \A key \in DOMAIN results : results[key].ok,
     v  |-> VTable([key \in DOMAIN results |-> results[key].v])]

\* one [target.<spec>] block: the three dependency tables it may hold
MapTargetBlock(target, f) ==
    IF target.k # "Table" THEN Done(target)
    ELSE TableOf([key \in DOMAIN target.t |-> MapTargetTable(key, target.t[key], f)])

Targets(results) ==
    [ok |-> \A name \in DOMAIN results : results[name].ok,
     v  |-> <<[name \in DOMAIN results |-> results[name].v]>>]

MapTargets(o, f) ==
    IF o = <<>> THEN Done(<<>>)
    ELSE Targets([name \in DOMAIN o[1] |-> MapTargetBlock(o[1][name], f)])

Manipulated(manifest, deps, dev, build, target) ==
    [ok |-> deps.ok /\ dev.ok /\ build.ok /\ target.ok,
     v  |-> [manifest EXCEPT !.dependencies = deps.v,
                             !.dev_dependencies = dev.v,
                             !.build_dependencies = build.v,
                             !.target = target.v]]

manipulate_dependencies(manifest, f) ==
    Manipulated(manifest,
                MapOption(manifest.dependencies, f),
                MapOption(manifest.dev_dependencies, f),
                MapOption(manifest.build_dependencies, f),
                MapTargets(manifest.target, f))

\* manifest.bin = Some(vec![bin]) and lib.path = "test_lib.rs"
StubBin == <<[name |-> <<"test">>, path |-> <<"test.rs">>]>>

InjectStubTargets(manifest) ==
    [manifest EXCEPT
        !.bin = <<StubBin>>,
        !.lib = IF manifest.lib = <<>> THEN <<>>
                ELSE <<Insert(manifest.lib[1], "path", <<"test_lib.rs">>)>>]

\* file contents: toml::to_string of a manifest, toml::from_str of a file
Serialize(manifest) == [kind |-> "manifest", doc |-> manifest]
Parses(content) == content.kind = "manifest"
Deserialize(content) == content.doc

(***************************************************************************)
(* The inspected workspace (ElaborateWorkspace) and the world around it.   *)
(* Workspace root /w; package R is rooted at /w, A at /w/a, S at /w2 (a    *)
(* sibling whose name starts with the root's), O at /o.  The sandbox is    *)
(* the directory /t/x.                                                     *)
(***************************************************************************)
MaxEdges == 2
MaxWalkEdges == 4

Pkgs == {"R", "A", "S", "O"}
WsRoot == <<"/", "w">>
TmpRoot == <<"/", "t", "/", "x">>
TmpParent == <<"/", "t">>

\* Package::root
PkgRoot(p) ==
    CASE p = "R" -> <<"/", "w">>
      [] p = "A" -> <<"/", "w", "/", "a">>
      [] p = "S" -> <<"/", "w", "2">>
      [] p = "O" -> <<"/", "o">>

\* Package::manifest_path
ManifestPath(p) == PathJoin(PkgRoot(p), <<"Cargo.toml">>)

\* the path a manifest of p names q by
RelPathTo(p, q) ==
    CASE p = "R" /\ q = "A" -> <<"a">>
      [] p = "R" /\ q = "S" -> <<"..", "/", "w", "2">>
      [] p = "R" /\ q = "O" -> <<"..", "/", "o">>
      [] p = "A" /\ q = "R" -> <<"..">>
      [] p = "A" /\ q = "S" -> <<"..", "/", "..", "/", "w", "2">>
      [] p = "A" /\ q = "O" -> <<"..", "/", "..", "/", "o">>
      [] p = "S" /\ q = "R" -> <<"..", "/", "w">>
      [] p = "S" /\ q = "A" -> <<"..", "/", "w", "/", "a">>
      [] p = "S" /\ q = "O" -> <<"..", "/", "o">>
      [] p = "O" /\ q = "R" -> <<"..", "/", "w">>
      [] p = "O" /\ q = "A" -> <<"..", "/", "w", "/", "a">>
      [] p = "O" /\ q = "S" -> <<"..", "/", "w", "2">>

\* the manifests are fixtures: where p declares its dependency on q, and
\* whether with a version beside the path
EntryPlace(p, q) ==
    CASE p = "R" /\ q = "A" -> "dependencies"
      [] p = "R" /\ q = "S" -> "build-dependencies"
      [] p = "R" /\ q = "O" -> "target"
      [] p = "A" /\ q = "R" -> "dev-dependencies"
      [] p = "A" /\ q = "S" -> "target"
      [] p = "A" /\ q = "O" -> "dev-dependencies"
      [] p = "S" /\ q = "A" -> "build-dependencies"
      [] OTHER -> "dependencies"

EntryVersioned(p, q) == <<p, q>> \in {<<"R", "A">>, <<"R", "O">>, <<"A", "S">>, <<"S", "O">>}
MemberLists == {<<"R">>, <<"R", "A">>, <<"A">>}

\* the packages of the workspace's graph: without a root package the root
\* manifest is a virtual one
Present(members) ==
    IF \E i \in 1..Len(members) : members[i] = "R" THEN Pkgs ELSE Pkgs \ {"R"}

EdgePairs(members) ==
    {e \in Present(members) \X Present(members) : e[1] # e[2]}

\* dependency edges: each a path dependency
EdgeSets(members, max) ==
    {{[from |-> e[1], to |-> e[2]] : e \in es}
        : es \in {s \in SUBSET EdgePairs(members) : Cardinality(s) <= max}}

\* sibling: an unrelated /t/o/Cargo.toml lies beside the sandbox; it matters
\* only where a path can lead to it
DependsOnO(ew) == \E e \in ew.edges : e.to = "O"

Workspaces(max, siblings) ==
    UNION {
        {ew \in [members : {ms}, edges : EdgeSets(ms, max), sibling : siblings] :
            ew.sibling => DependsOnO(ew)}
        : ms \in MemberLists}

\* elab.pkg_deps[pkg_id].keys()
PkgDeps(ew, p) == {e.to : e \in {d \in ew.edges : d.from = p}}

\* the dependency entries a manifest declares for its path dependencies
PathEntries(ew, p, place) ==
    [q \in {d \in PkgDeps(ew, p) : EntryPlace(p, d) = place} |->
        IF EntryVersioned(p, q)
        THEN VTable([path |-> RelPathTo(p, q), version |-> <<"1.0">>])
        ELSE VTable([path |-> RelPathTo(p, q)])]

WithEntries(o, entries) ==
    IF DOMAIN entries = {} THEN o
    ELSE <<entries @@ (IF o = <<>> THEN EmptyTable ELSE o[1])>>

\* registry dependencies, fixed per package
BaseManifest(p) ==
    CASE p = "R" ->
           [bin |-> <<<<[name |-> <<"r">>]>>>>,
            lib |-> <<[name |-> <<"r">>]>>,
            dependencies |-> <<[serde |-> VString(<<"1.0">>)]>>,
            dev_dependencies |-> <<[rand |-> VTable([version |-> <<"0.3">>, features |-> <<"f">>])]>>,
            build_dependencies |-> <<>>,
            target |-> <<[unix |-> VTable(
                 "dependencies" :> VTable([libc |-> VString(<<"0.2">>)])
              @@ "dev-dependencies" :> VTable([nix |-> VTable([version |-> <<"0.9">>])]))]>>]
      [] p = "A" ->
           [bin |-> <<>>,
            lib |-> <<>>,
            dependencies |-> <<[log |-> VTable([git |-> <<"url">>])]>>,
            dev_dependencies |-> <<>>,
            build_dependencies |-> <<[cc |-> VTable([version |-> <<"1.0">>])]>>,
            target |-> <<>>]
      [] OTHER ->
           [bin |-> <<>>,
            lib |-> <<[name |-> <<"s">>, path |-> <<"lib.rs">>]>>,
            dependencies |-> <<[serde |-> VString(<<"1.0">>)]>>,
            dev_dependencies |-> <<>>,
            build_dependencies |-> <<>>,
            target |-> <<>>]

TargetWithEntries(o, entries) ==
    IF DOMAIN entries = {} THEN o
    ELSE LET targets == IF o = <<>> THEN EmptyTable ELSE o[1]
             block == IF "unix" \in DOMAIN targets THEN targets["unix"].t ELSE EmptyTable
             deps == IF "build-dependencies" \in DOMAIN block
                     THEN block["build-dependencies"].t ELSE EmptyTable
         IN <<Insert(targets, "unix",
                     VTable(Insert(block, "build-dependencies", VTable(entries @@ deps))))>>

OrigManifest(ew, p) ==
    [BaseManifest(p) EXCEPT
        !.dependencies = WithEntries(@, PathEntries(ew, p, "dependencies")),
        !.dev_dependencies = WithEntries(@, PathEntries(ew, p, "dev-dependencies")),
        !.build_dependencies = WithEntries(@, PathEntries(ew, p, "build-dependencies")),
        !.target = TargetWithEntries(@, PathEntries(ew, p, "target"))]

VirtualManifest ==
    [bin |-> <<>>, lib |-> <<>>, dependencies |-> <<>>, dev_dependencies |-> <<>>,
     build_dependencies |-> <<>>, target |-> <<>>]

LockFile(policy) == [kind |-> "lock", doc |-> [by |-> policy]]

\* the files and directories before the run
OrigFiles(ew) ==
    [path \in {ManifestPath(p) : p \in Present(ew.members)} |->
        Serialize(OrigManifest(ew, CHOOSE p \in Present(ew.members) : ManifestPath(p) = path))]
    @@ (PathJoin(WsRoot, <<"Cargo.toml">>) :> Serialize(VirtualManifest))
    @@ (PathJoin(WsRoot, <<"Cargo.lock">>) :> LockFile("orig"))
    @@ (IF ew.sibling
        THEN PathJoin(PathJoin(TmpParent, <<"o">>), <<"Cargo.toml">>) :> Serialize(BaseManifest("O"))
        ELSE EmptyTable)

OrigDirs(ew) ==
    {RootDir, TmpParent} \cup {PkgRoot(p) : p \in Pkgs}
    \cup (IF ew.sibling THEN {PathJoin(TmpParent, <<"o">>)} ELSE {})

(***************************************************************************)
(* manifest_paths: the graph walk.  The order in which a package's         *)
(* dependencies are iterated (the keys of a map) is not fixed by the code: *)
(* ord gives, per package, the order of one run.                           *)
(***************************************************************************)
Perms(S) ==
    {s \in [1..Cardinality(S) -> S] : \A i, j \in 1..Cardinality(S) : i # j => s[i] # s[j]}

DepOrders(ew) ==
    {o \in [Pkgs -> UNION {Perms(PkgDeps(ew, p)) : p \in Pkgs}] :
        \A p \in Pkgs : o[p] \in Perms(PkgDeps(ew, p))}

\* pkg_path.starts_with(workspace_path): a comparison of strings
InWorkspace(p) == StartsWith(PkgRoot(p), WsRoot)

\* variant: the path is put in front of the list
VisitPrepending(pkg_id, st) ==
    [visited |-> st.visited \cup {pkg_id},
     manifest_paths |-> IF InWorkspace(pkg_id)
                        THEN <<ManifestPath(pkg_id)>> \o st.manifest_paths
                        ELSE st.manifest_paths,
     calls |-> Append(st.calls, pkg_id)]

\* the body of manifest_paths_recursive up to its loop, for an unvisited package
Visit(pkg_id, st) ==
    [visited |-> st.visited \cup {pkg_id},
     manifest_paths |-> IF InWorkspace(pkg_id)
                        THEN Append(st.manifest_paths, ManifestPath(pkg_id))
                        ELSE st.manifest_paths,
     calls |-> Append(st.calls, pkg_id)]

RECURSIVE manifest_paths_recursive(_, _, _)
RECURSIVE WalkDeps(_, _, _)
manifest_paths_recursive(pkg_id, ord, st) ==
    IF pkg_id \in st.visited THEN st
    ELSE WalkDeps(ord[pkg_id], ord, Visit(pkg_id, st))

WalkDeps(deps, ord, st) ==
    IF deps = <<>> THEN st
    ELSE WalkDeps(Tail(deps), ord, manifest_paths_recursive(Head(deps), ord, st))

NoneVisited == [visited |-> {}, manifest_paths |-> <<>>, calls |-> <<>>]

manifest_paths(ew, ord) == WalkDeps(ew.members, ord, NoneVisited).manifest_paths

(***************************************************************************)
(* from_workspace, step by step.                                           *)
(***************************************************************************)
\* variant: the destination is formatted from the workspace root
DestDirInWorkspace(from) == WsRoot \o <<Sep>> \o SliceFrom(PathPop(from), Len(WsRoot))

\* e.g. /tmp/cargo.xxx/src/sub
DestDir(from) == TmpRoot \o <<Sep>> \o SliceFrom(PathPop(from), Len(WsRoot))

\* e.g. /tmp/cargo.xxx/src/sub/Cargo.toml
DestOf(from) == PathJoin(DestDir(from), <<"Cargo.toml">>)

TmpManifestPaths(paths) == [i \in 1..Len(paths) |-> DestOf(paths[i])]

\* one iteration of the copy loop
CopyOne(fs, from) ==
    LET d1 == CreateDirAll(DestDir(from), fs.d)
        f1 == PutFile(DestOf(from), GetFile(from, fs.f, fs.d), fs.f, d1)
        lockfile == PathPop(from) \o <<Sep, "Cargo.lock">>
    IN [f |-> IF IsFile(lockfile, f1, d1)
              THEN PutFile(PathJoin(PathPop(DestOf(from)), <<"Cargo.lock">>),
                           GetFile(lockfile, f1, d1), f1, d1)
              ELSE f1,
        d |-> d1]

RECURSIVE CopyLoop(_, _, _)
CopyLoop(fs, paths, n) ==
    IF n = 0 THEN fs ELSE CopyOne(CopyLoop(fs, paths, n - 1), paths[n])

\* one iteration of write_manifest_semver_with_paths
Written(fs, manifest_path, r) ==
    [ok |-> r.ok,
     fs |-> [f |-> PutFile(manifest_path, Serialize(r.v), fs.f, fs.d), d |-> fs.d]]

\* variant: the staging leaves the copies as they were copied
RewriteOneSkipped(fs, manifest_path) == [ok |-> TRUE, fs |-> fs]

RewriteOne(fs, manifest_path) ==
    Written(fs, manifest_path,
            manipulate_dependencies(
                InjectStubTargets(Deserialize(GetFile(manifest_path, fs.f, fs.d))),
                AbsoluteFn(WsRoot, TmpRoot, manifest_path, fs.f, fs.d)))

\* a panic leaves the files as the manifests before it left them
Checked(prev, r) == IF r.ok THEN r ELSE [ok |-> FALSE, fs |-> prev.fs]

RewriteStep(prev, manifest_path) ==
    IF ~prev.ok THEN prev ELSE Checked(prev, RewriteOne(prev.fs, manifest_path))

\* the first n manifests rewritten; ok = FALSE when one of them panicked
RECURSIVE write_manifest_semver_with_paths(_, _, _)
write_manifest_semver_with_paths(fs, tmp_paths, n) ==
    IF n = 0 THEN [ok |-> TRUE, fs |-> fs]
    ELSE RewriteStep(write_manifest_semver_with_paths(fs, tmp_paths, n - 1), tmp_paths[n])

\* the virtual root manifest and its lock file
CopyRootLock(fs, lock) ==
    IF IsFile(lock, fs.f, fs.d)
    THEN [f |-> PutFile(TmpRoot \o <<Sep, "Cargo.lock">>, GetFile(lock, fs.f, fs.d), fs.f, fs.d),
          d |-> fs.d]
    ELSE fs

CopyVirtualRoot(fs, paths) ==
    IF (\A i \in 1..Len(paths) : ~PathEq(paths[i], WsRoot \o <<Sep, "Cargo.toml">>))
       /\ IsFile(WsRoot \o <<Sep, "Cargo.toml">>, fs.f, fs.d)
    THEN CopyRootLock(
             [f |-> PutFile(TmpRoot \o <<Sep, "Cargo.toml">>,
                            GetFile(WsRoot \o <<Sep, "Cargo.toml">>, fs.f, fs.d), fs.f, fs.d),
              d |-> fs.d],
             PathJoin(PathPop(WsRoot \o <<Sep, "Cargo.toml">>), <<"Cargo.lock">>))
    ELSE fs

\* variant: only the files are removed
DropTempDirKeepingDirs(fs) == [f |-> RemoveTreeFiles(TmpRoot, fs.f), d |-> fs.d]

\* the temp_dir going out of scope
DropTempDir(fs) ==
    [f |-> RemoveTreeFiles(TmpRoot, fs.f), d |-> RemoveTreeDirs(TmpRoot, fs.d)]

\* the ways from_workspace returns: an error or a panic drops temp_dir
Failure(how, fs) ==
    [how |-> how, f |-> DropTempDir(fs).f, d |-> DropTempDir(fs).d,
     manifest_paths |-> <<>>, from_paths |-> <<>>]

Success(fs, paths, tmp_paths) ==
    [how |-> "ok", f |-> fs.f, d |-> fs.d,
     manifest_paths |-> tmp_paths, from_paths |-> paths]

\* generate_config fails, or the project is built
AfterVirtualRoot(paths, tmp_paths, full) ==
    {Failure("err", full), Success(full, paths, tmp_paths)}

\* a panic in the rewrite; else the virtual root's copy fails, or goes on
AfterRewrite(paths, tmp_paths, rw) ==
    IF ~rw.ok THEN {Failure("panic", rw.fs)}
    ELSE {Failure("err", rw.fs)}
         \cup AfterVirtualRoot(paths, tmp_paths, CopyVirtualRoot(rw.fs, paths))

\* the rewrite fails at its i-th manifest (an I/O or a parse error), or goes on
AfterCopy(paths, tmp_paths, copied) ==
    {Failure("err", write_manifest_semver_with_paths(copied, tmp_paths, i - 1).fs)
        : i \in {j \in 1..Len(paths) :
                    write_manifest_semver_with_paths(copied, tmp_paths, j - 1).ok}}
    \cup AfterRewrite(paths, tmp_paths,
                      write_manifest_semver_with_paths(copied, tmp_paths, Len(paths)))

\* the copy loop fails at its i-th manifest, or goes on
AfterTempDir(paths, fs0) ==
    {Failure("err", CopyLoop(fs0, paths, i - 1)) : i \in 1..Len(paths)}
    \cup AfterCopy(paths, TmpManifestPaths(paths), CopyLoop(fs0, paths, Len(paths)))

\* TempDir::new fails, or the sandbox directory is there
from_workspace(ew, fm, ds, ord) ==
    {Failure("err", [f |-> fm, d |-> ds])}
    \cup AfterTempDir(manifest_paths(ew, ord), [f |-> fm, d |-> ds \cup {TmpRoot}])

(***************************************************************************)
(* The operations on a TempProject.                                        *)
(***************************************************************************)
\* format!("{}/{}", temp_dir, relative_manifest)
RootManifest(relative_manifest) == TmpRoot \o <<Sep>> \o relative_manifest

\* one iteration of write_manifest_latest
LatestOne(fs, manifest_path) ==
    Written(fs, manifest_path,
            manipulate_dependencies(
                InjectStubTargets(Deserialize(GetFile(manifest_path, fs.f, fs.d))),
                WildcardFn))

\* variant: the handle is stored whatever the pass returns
PassResultAlwaysStored(how, fs, stored) == [how |-> how, f |-> fs.f, d |-> fs.d, stored |-> TRUE]

PassResult(how, fs, stored) == [how |-> how, f |-> fs.f, d |-> fs.d, stored |-> stored]

\* Workspace::new(root_manifest): an error, or the handle is stored
OpenWorkspace(fs, root_manifest) ==
    {PassResult("err", fs, FALSE)}
    \cup (IF IsFile(root_manifest, fs.f, fs.d) THEN {PassResult("ok", fs, TRUE)} ELSE {})

\* the loop from its k-th manifest on: the iteration fails (an I/O or a parse
\* error), panics, or the loop goes on; after the last one the handle is opened
RECURSIVE LatestFrom(_, _, _, _)
LatestNext(step, paths, k, root_manifest) ==
    IF ~step.ok THEN {PassResult("panic", step.fs, FALSE)}
    ELSE LatestFrom(step.fs, paths, k + 1, root_manifest)

LatestFrom(fs, paths, k, root_manifest) ==
    IF k > Len(paths) THEN OpenWorkspace(fs, root_manifest)
    ELSE {PassResult("err", fs, FALSE)}
         \cup LatestNext(Checked([ok |-> TRUE, fs |-> fs], LatestOne(fs, paths[k])),
                         paths, k, root_manifest)

write_manifest_latest(fs, paths, root_manifest) == LatestFrom(fs, paths, 1, root_manifest)

write_manifest_semver(fs, root_manifest) == OpenWorkspace(fs, root_manifest)

\* the lock file of the workspace the handle was opened on
LockPath(handle, fm, ds) ==
    IF IsFile(TmpRoot \o <<Sep, "Cargo.toml">>, fm, ds)
    THEN TmpRoot \o <<Sep, "Cargo.lock">>
    ELSE PathJoin(PathPop(handle.manifest), <<"Cargo.lock">>)

\* update_lockfile(handle): an error of the resolver, or the lock file written
update_lockfile(handle, fm, ds) ==
    {[how |-> "err", f |-> fm], 
     [how |-> "ok", f |-> PutFile(LockPath(handle, fm, ds), LockFile(handle.policy), fm, ds)]}

\* self.workspace.borrow().as_ref().unwrap(): a panic on an empty handle
cargo_update(workspace, fm, ds) ==
    IF workspace = <<>> THEN {[how |-> "panic", f |-> fm]}
    ELSE update_lockfile(workspace[1], fm, ds)

VARIABLES elab, files, dirs, tp, outcome,
          pc, stack, visited, walked, calls

vars == <<elab, files, dirs, tp, outcome, pc, stack, visited, walked, calls>>
walkVars == <<pc, stack, visited, walked, calls>>

\* The TempProject.  from_paths keeps the list manifest_paths() returned;
\* last_ok is the policy of the last pass that returned Ok, failed_since
\* whether a pass failed after it, resolved what cargo_update last ran on
\* (kept when the project is gone).
NoProject ==
    [state |-> "none", manifest_paths |-> <<>>, from_paths |-> <<>>,
     relative_manifest |-> <<>>, workspace |-> <<>>,
     last_ok |-> "none", failed_since |-> FALSE, resolved |-> <<>>]

InitOf(workspaces) ==
    /\ elab \in workspaces
    /\ files = OrigFiles(elab)
    /\ dirs = OrigDirs(elab)
    /\ tp = NoProject
    /\ outcome = "none"

Init ==
    /\ InitOf(Workspaces(MaxEdges, BOOLEAN))
    /\ pc = "idle"
    /\ stack = <<>>
    /\ visited = {}
    /\ walked = <<>>
    /\ calls = <<>>

FromWorkspace ==
    /\ tp.state = "none"
    /\ \E ord \in DepOrders(elab) :
          \E r \in from_workspace(elab, files, dirs, ord) :
             \E m \in 1..Len(elab.members) :
                /\ files' = r.f
                /\ dirs' = r.d
                /\ outcome' = r.how
                /\ tp' = IF r.how = "ok"
                         THEN [NoProject EXCEPT
                                  !.state = "live",
                                  !.manifest_paths = r.manifest_paths,
                                  !.from_paths = r.from_paths,
                                  !.relative_manifest =
                                      SliceFrom(ManifestPath(elab.members[m]), Len(WsRoot))]
                         ELSE [NoProject EXCEPT !.state = "gone"]
    /\ UNCHANGED elab
    /\ UNCHANGED walkVars

\* the effect of a policy pass on the project
Pass(policy, r) ==
    /\ files' = r.f
    /\ dirs' = r.d
    /\ outcome' = r.how
    /\ tp' = [tp EXCEPT
                 !.workspace = IF r.stored
                               THEN <<[policy |-> policy,
                                       manifest |-> RootManifest(tp.relative_manifest)]>>
                               ELSE @,
                 !.last_ok = IF r.how = "ok" THEN policy ELSE @,
                 !.failed_since = r.how # "ok"]

Usable == tp.state = "live" /\ outcome # "panic"

WriteManifestSemver ==
    /\ Usable
    /\ \E r \in write_manifest_semver([f |-> files, d |-> dirs],
                                      RootManifest(tp.relative_manifest)) :
          Pass("semver", r)
    /\ UNCHANGED elab
    /\ UNCHANGED walkVars

WriteManifestLatest ==
    /\ Usable
    /\ \E r \in write_manifest_latest([f |-> files, d |-> dirs], tp.manifest_paths,
                                      RootManifest(tp.relative_manifest)) :
          Pass("latest", r)
    /\ UNCHANGED elab
    /\ UNCHANGED walkVars

CargoUpdate ==
    /\ Usable
    /\ \E r \in cargo_update(tp.workspace, files, dirs) :
          /\ files' = r.f
          /\ outcome' = r.how
          /\ tp' = IF r.how = "ok"
                   THEN [tp EXCEPT !.resolved =
                            <<[policy |-> tp.workspace[1].policy,
                               last_ok |-> tp.last_ok,
                               failed_since |-> tp.failed_since]>>]
                   ELSE tp
    /\ UNCHANGED <<elab, dirs>>
    /\ UNCHANGED walkVars

\* the TempProject goes out of scope (at the end of the run, or unwinding a panic)
DropTempProject ==
    /\ tp.state = "live"
    /\ files' = DropTempDir([f |-> files, d |-> dirs]).f
    /\ dirs' = DropTempDir([f |-> files, d |-> dirs]).d
    /\ tp' = [NoProject EXCEPT !.state = "gone", !.resolved = tp.resolved]
    /\ UNCHANGED <<elab, outcome>>
    /\ UNCHANGED walkVars

Next ==
    \/ FromWorkspace
    \/ WriteManifestSemver
    \/ WriteManifestLatest
    \/ CargoUpdate
    \/ DropTempProject

Spec == Init /\ [][Next]_vars

\* the owner of a TempProject leaves its scope at the end of the run or when a
\* panic unwinds: the drop is not postponed for ever
FairSpec == Spec /\ WF_vars(DropTempProject)

(***************************************************************************)
(* manifest_paths call by call: stack holds, per active loop (the one over *)
(* the members, then one per active manifest_paths_recursive), the ids it  *)
(* has still to pass to manifest_paths_recursive.                          *)
(***************************************************************************)
InitWalk ==
    /\ InitOf(Workspaces(MaxWalkEdges, {FALSE}))
    /\ pc = "walking"
    /\ stack = <<elab.members>>
    /\ visited = {}
    /\ walked = <<>>
    /\ calls = <<>>

Top == stack[Len(stack)]
Advanced == [stack EXCEPT ![Len(stack)] = Tail(@)]
Walked == [visited |-> visited, manifest_paths |-> walked, calls |-> calls]

\* a call on a package not yet visited: mark, collect, start its loop
WalkEnter ==
    /\ pc = "walking" /\ stack # <<>> /\ Top # <<>>
    /\ Head(Top) \notin visited
    /\ \E deps \in Perms(PkgDeps(elab, Head(Top))) :
          stack' = Append(Advanced, deps)
    /\ visited' = Visit(Head(Top), Walked).visited
    /\ walked' = Visit(Head(Top), Walked).manifest_paths
    /\ calls' = Visit(Head(Top), Walked).calls
    /\ UNCHANGED <<elab, files, dirs, tp, outcome, pc>>

\* a call on a visited package returns at once
WalkSkip ==
    /\ pc = "walking" /\ stack # <<>> /\ Top # <<>>
    /\ Head(Top) \in visited
    /\ stack' = Advanced
    /\ UNCHANGED <<elab, files, dirs, tp, outcome, pc, visited, walked, calls>>

\* the loop of a call is over: the call returns
WalkReturn ==
    /\ pc = "walking" /\ Len(stack) > 1 /\ Top = <<>>
    /\ stack' = SubSeq(stack, 1, Len(stack) - 1)
    /\ UNCHANGED <<elab, files, dirs, tp, outcome, pc, visited, walked, calls>>

\* the loop over the members is over: Ok(manifest_paths)
WalkFinish ==
    /\ pc = "walking" /\ stack = <<<<>>>>
    /\ pc' = "done"
    /\ stack' = <<>>
    /\ UNCHANGED <<elab, files, dirs, tp, outcome, visited, walked, calls>>

WalkNext == WalkEnter \/ WalkSkip \/ WalkReturn \/ WalkFinish

SpecWalk == InitWalk /\ [][WalkNext]_vars

\* the walk is sequential code: it takes its next step
FairWalk == SpecWalk /\ WF_vars(WalkNext)

(***************************************************************************)
(* Vocabulary of the properties.                                           *)
(***************************************************************************)
\* the packages reachable from the members through dependency edges
RECURSIVE Closure(_, _)
Closure(ew, S) ==
    IF UNION {PkgDeps(ew, p) : p \in S} \subseteq S THEN S
    ELSE Closure(ew, S \cup UNION {PkgDeps(ew, p) : p \in S})

Reachable(ew) == Closure(ew, {ew.members[i] : i \in 1..Len(ew.members)})

Range(s) == {s[i] : i \in 1..Len(s)}
NoDuplicates(s) == \A i, j \in 1..Len(s) : i # j => s[i] # s[j]

\* Path::strip_prefix: the components of path after those of base
StripPrefix(path, base) ==
    IF /\ IsRelative(path) = IsRelative(base)
       /\ Len(Components(base)) <= Len(Components(path))
       /\ SubSeq(Components(path), 1, Len(Components(base))) = Components(base)
    THEN [ok |-> TRUE,
          rest |-> SubSeq(Components(path), Len(Components(base)) + 1, Len(Components(path)))]
    ELSE [ok |-> FALSE, rest |-> <<>>]

\* the dependency tables of a manifest, by where they stand
TopTableIds(doc) ==
    {<<key>> : key \in {k \in DependencyTables :
                  \/ k = "dependencies" /\ doc.dependencies # <<>>
                  \/ k = "dev-dependencies" /\ doc.dev_dependencies # <<>>
                  \/ k = "build-dependencies" /\ doc.build_dependencies # <<>>}}

TargetTableIds(doc) ==
    IF doc.target = <<>> THEN {}
    ELSE {id \in (DOMAIN doc.target[1]) \X DependencyTables :
             id[2] \in DOMAIN doc.target[1][id[1]].t}

TableIds(doc) == TopTableIds(doc) \cup TargetTableIds(doc)

TableAt(doc, id) ==
    IF Len(id) = 2 THEN doc.target[1][id[1]].t[id[2]].t
    ELSE CASE id[1] = "dependencies" -> doc.dependencies[1]
           [] id[1] = "dev-dependencies" -> doc.dev_dependencies[1]
           [] id[1] = "build-dependencies" -> doc.build_dependencies[1]

DocAt(fm, path) == fm[FsResolve(path, dirs).p].doc

HasKey(entry, key) == entry.k = "Table" /\ key \in DOMAIN entry.t

SandboxGone ==
    /\ \A d \in dirs : ~Under(d, TmpRoot)
    /\ \A f \in DOMAIN files : ~Under(f, TmpRoot)

(***************************************************************************)
(* Properties of the graph walk (SpecWalk, FairWalk).                      *)
(***************************************************************************)
\* the chain of active calls once those with nothing left to discover returned
RECURSIVE Unwind(_, _)
Unwind(chain, seen) ==
    IF chain = <<>> \/ PkgDeps(elab, chain[Len(chain)]) \ seen # {} THEN chain
    ELSE Unwind(SubSeq(chain, 1, Len(chain) - 1), seen)

FirstMemberOutside(seen, pkg) ==
    \E i \in 1..Len(elab.members) :
        /\ elab.members[i] = pkg
        /\ pkg \notin seen
        /\ \A k \in 1..(i - 1) : elab.members[k] \in seen

DiscoveredNext(active, seen, pkg) ==
    IF active = <<>> THEN FirstMemberOutside(seen, pkg)
    ELSE pkg \in PkgDeps(elab, active[Len(active)]) \ seen

\* D is a depth-first pre-order of the graph from the members in member order:
\* each package is discovered from the deepest active package that still has
\* an undiscovered dependency, or is the next undiscovered member
RECURSIVE IsPreorderFrom(_, _, _)
IsPreorderFrom(D, j, active) ==
    IF j > Len(D)
    THEN /\ active = <<>>
         /\ Range(elab.members) \subseteq Range(D)
    ELSE /\ DiscoveredNext(active, {D[i] : i \in 1..(j - 1)}, D[j])
         /\ IsPreorderFrom(D, j + 1, Unwind(Append(active, D[j]), {D[i] : i \in 1..j}))

IsPreorder(D) == IsPreorderFrom(D, 1, <<>>)

RECURSIVE CollectedOf(_)
CollectedOf(D) ==
    IF D = <<>> THEN <<>>
    ELSE IF InWorkspace(Head(D)) THEN <<ManifestPath(Head(D))>> \o CollectedOf(Tail(D))
         ELSE CollectedOf(Tail(D))

WalkResult ==
    /\ NoDuplicates(calls)
    /\ Range(calls) = Reachable(elab)
    /\ IsPreorder(calls)
    /\ NoDuplicates(walked)
    /\ walked = CollectedOf(calls)
    /\ \E ord \in DepOrders(elab) : walked = manifest_paths(elab, ord)

\* C10: on every dependency graph, cycles and diamonds included, manifest_paths
\* returns; by then the body of manifest_paths_recursive has run exactly once
\* for each package reachable from the members, in depth-first pre-order from
\* the members in member order, and the returned list holds no path twice and
\* is in that order of discovery.
C10_WalkTerminatesInPreorder ==
    /\ <>(pc = "done")
    /\ [](pc = "done" => WalkResult)

OnCycle(p) == p \in Closure(elab, PkgDeps(elab, p))
Shared(p) == Cardinality({q \in visited : p \in PkgDeps(elab, q)}) >= 2

C10_Witness ==
    /\ pc = "done"
    /\ \E p \in visited : OnCycle(p)
    /\ \E p \in visited : Shared(p) /\ ~OnCycle(p)
    /\ Len(walked) >= 2

\* C3: the returned list holds the manifest of a package exactly when the
\* package is reachable from a member and its root directory is the workspace
\* root or a directory below it.
C3_CollectedIffReachableDescendant ==
    pc = "done" =>
        Range(walked) = {ManifestPath(p) : p \in {q \in Reachable(elab) :
                                                     Under(PkgRoot(q), WsRoot)}}

(***************************************************************************)
(* Properties of the operations (Spec, FairSpec).                          *)
(***************************************************************************)
Copies == 1..Len(tp.manifest_paths)
CopyDoc(fm, i) == DocAt(fm, tp.manifest_paths[i])
OrigDoc(i) == DocAt(files, tp.from_paths[i])

\* every entry of every dependency table, related by W to the entry after
EntriesRelated(before, after, W(_, _)) ==
    /\ TableIds(after) = TableIds(before)
    /\ \A id \in TableIds(before) :
          /\ DOMAIN TableAt(after, id) = DOMAIN TableAt(before, id)
          /\ \A name \in DOMAIN TableAt(before, id) :
                W(TableAt(before, id)[name], TableAt(after, id)[name])

SomeEntry(doc, P(_)) ==
    \E id \in TableIds(doc) : \E name \in DOMAIN TableAt(doc, id) : P(TableAt(doc, id)[name])

EveryEntry(doc, P(_)) ==
    \A id \in TableIds(doc) : \A name \in DOMAIN TableAt(doc, id) : P(TableAt(doc, id)[name])

OutsideSandboxAsAtStart(orig_files, orig_dirs) ==
    /\ \A f \in DOMAIN files : ~Under(f, TmpRoot) => f \in DOMAIN orig_files
    /\ \A f \in DOMAIN orig_files : f \in DOMAIN files /\ files[f] = orig_files[f]
    /\ \A d \in dirs : ~Under(d, TmpRoot) => d \in orig_dirs
    /\ orig_dirs \subseteq dirs

\* C1: whatever the operations do, and however they fail, the files and the
\* directories outside the sandbox directory are those of the start of the run,
\* with the contents they had.
C1_WritesConfinedToSandbox == OutsideSandboxAsAtStart(OrigFiles(elab), OrigDirs(elab))

C1_Witness ==
    /\ tp.state = "live"
    /\ tp.resolved # <<>>
    /\ tp.last_ok = "latest"
    /\ Len(tp.manifest_paths) >= 2
    /\ files[TmpRoot \o <<Sep, "Cargo.lock">>] = LockFile("latest")

VersionWidened(before, after) ==
    /\ after.k = "Table"
    /\ DOMAIN after.t = DOMAIN before.t
    /\ after.t["version"] = Wildcard
    /\ \A key \in DOMAIN before.t \ {"version"} : after.t[key] = before.t[key]

\* the entry after the widening: a table with a path is left as it is
WidenedUnlessPath(before, after) ==
    CASE before.k = "String" -> after = VString(Wildcard)
      [] HasKey(before, "path") -> after = before
      [] HasKey(before, "version") -> VersionWidened(before, after)
      [] OTHER -> after = before

\* the entry after the widening: a version is widened beside a path too
WidenedAlways(before, after) ==
    CASE before.k = "String" -> after = VString(Wildcard)
      [] HasKey(before, "version") -> VersionWidened(before, after)
      [] OTHER -> after = before

\* the ways write_manifest_latest can return, called in the current state
LatestResults ==
    write_manifest_latest([f |-> files, d |-> dirs], tp.manifest_paths,
                          RootManifest(tp.relative_manifest))

WidenedBy(r, W(_, _)) ==
    r.how = "ok" =>
        \A i \in Copies : EntriesRelated(CopyDoc(files, i), CopyDoc(r.f, i), W)

KeepsVersionBesidePath(entry) ==
    /\ HasKey(entry, "path") /\ HasKey(entry, "version")
    /\ entry.t["version"] # Wildcard

WidenedTable(entry) ==
    /\ HasKey(entry, "version") /\ ~HasKey(entry, "path")
    /\ entry.t["version"] = Wildcard

C4_CopiesMirrorOriginals ==
    tp.state = "live" =>
        \A i \in Copies :
            /\ StripPrefix(tp.from_paths[i], WsRoot).ok
            /\ StripPrefix(tp.manifest_paths[i], TmpRoot).ok
            /\ StripPrefix(tp.manifest_paths[i], TmpRoot).rest
                  = StripPrefix(tp.from_paths[i], WsRoot).rest

\* what the relative path of an entry leads to from the directory of a manifest
TargetOf(manifest_path, path) ==
    FsResolve(PathJoin(PathJoin(PathPop(manifest_path), path), <<"Cargo.toml">>), dirs)

LeadsIntoSandbox(manifest_path, path) ==
    /\ TargetOf(manifest_path, path).ok
    /\ TargetOf(manifest_path, path).p \in DOMAIN files
    /\ Under(TargetOf(manifest_path, path).p, TmpRoot)

AbsoluteOf(manifest_path, path) == FsResolve(PathJoin(PathPop(manifest_path), path), dirs).p

PathRewrittenIffOutside(i, before, after) ==
    HasRelativePath(before) =>
        /\ after.t["path"]
              = IF LeadsIntoSandbox(tp.manifest_paths[i], before.t["path"])
                THEN before.t["path"]
                ELSE AbsoluteOf(tp.from_paths[i], before.t["path"])
        /\ LeadsIntoSandbox(tp.manifest_paths[i], before.t["path"])
              <=> Under(AbsoluteOf(tp.from_paths[i], before.t["path"]), WsRoot)

\* C5: when from_workspace has returned, an entry declared with a relative path
\* holds the canonical absolute path of the dependency exactly when the
\* relative path does not lead, from the copy, to a Cargo.toml under the
\* sandbox root, which is exactly when the dependency lies outside the original
\* workspace; otherwise its path is as declared.
C5_PathAbsoluteIffOutsideSandbox ==
    tp.state = "live" =>
        \A i \in Copies :
            EntriesRelated(OrigDoc(i), CopyDoc(files, i),
                           LAMBDA before, after : PathRewrittenIffOutside(i, before, after))

\* C6: once the sandbox directory is there, the run comes to a state where the
\* directory and everything under it is gone; and a project that is gone, by a
\* failure of from_workspace or by its drop after any outcome of the other
\* operations, has left nothing behind.
C6_SandboxEventuallyRemoved ==
    /\ (TmpRoot \in dirs) ~> SandboxGone
    /\ [](tp.state = "gone" => SandboxGone)

C6_Witness ==
    /\ tp.state = "gone"
    /\ tp.resolved # <<>>
    /\ outcome = "err"
    /\ SandboxGone

ResolvesOrAbsolute(i, entry) ==
    HasRelativePath(entry) => TargetOf(tp.manifest_paths[i], entry.t["path"]).ok

\* the staged form of a copy: stub targets in, no relative path left dangling
StagedDoc(i, copy, orig) ==
    /\ copy.bin = <<StubBin>>
    /\ copy.lib # <<>> => copy.lib[1]["path"] = <<"test_lib.rs">>
    /\ copy # orig
    /\ EveryEntry(copy, LAMBDA entry : ResolvesOrAbsolute(i, entry))

Staged(i) == StagedDoc(i, CopyDoc(files, i), OrigDoc(i))

PathKept(before, after) ==
    HasKey(before, "path") => HasKey(after, "path") /\ after.t["path"] = before.t["path"]

\* C7: whenever write_manifest_latest runs, each manifest it reads is on disk in
\* its staged form (stub targets injected, paths made absolute where they had
\* to be), never the pristine copy; and whatever it writes keeps the path of
\* every entry.
C7_WidenReadsStagedManifests ==
    Usable =>
        /\ \A i \in Copies : Staged(i)
        /\ \A r \in LatestResults :
              \A i \in Copies : EntriesRelated(CopyDoc(files, i), CopyDoc(r.f, i), PathKept)

IsAbsolutePathEntry(entry) == HasKey(entry, "path") /\ ~IsRelative(entry.t["path"])

C7_Witness ==
    /\ tp.state = "live" /\ outcome = "ok"
    /\ tp.last_ok = "latest"
    /\ \E i \in Copies : SomeEntry(CopyDoc(files, i), IsAbsolutePathEntry)

NothingLeftToWiden(entry) ==
    /\ entry.k = "String" => entry.s = Wildcard
    /\ HasKey(entry, "version") /\ ~HasKey(entry, "path") => entry.t["version"] = Wildcard

HandleDiscipline ==
    /\ Len(tp.workspace) <= 1
    /\ tp.workspace = <<>> <=> tp.last_ok = "none"
    /\ tp.workspace # <<>> =>
          /\ tp.workspace[1].policy = tp.last_ok
          /\ tp.workspace[1].policy = "latest" =>
                \A i \in Copies : EveryEntry(CopyDoc(files, i), NothingLeftToWiden)
    /\ tp.resolved # <<>> =>
          /\ tp.resolved[1].last_ok # "none"
          /\ tp.resolved[1].policy = tp.resolved[1].last_ok

\* C8 (as the code has it): the handle holds at most one Workspace, none until
\* a pass has returned Ok and then the one stored by the last pass that
\* returned Ok, stored after all the manifest writes of that pass; the resolver
\* runs on that handle, and cargo_update on an empty handle panics and writes
\* nothing.
C8_HandleOfLastSuccessfulPass ==
    /\ HandleDiscipline
    /\ Usable /\ tp.workspace = <<>> =>
          cargo_update(tp.workspace, files, dirs) = {[how |-> "panic", f |-> files]}

\* C8 (as stated): cargo_update never runs the resolver on a handle left over
\* from an earlier pass when the latest pass failed.
C8_NeverOnStaleHandle ==
    tp.resolved # <<>> => ~tp.resolved[1].failed_since

C8_Witness ==
    /\ tp.state = "live"
    /\ tp.resolved # <<>>
    /\ tp.resolved[1].failed_since
    /\ tp.resolved[1].policy = "semver"

RewriteChangesNothing(r) ==
    /\ r.ok
    /\ r.fs.d = dirs
    /\ \A i \in Copies : CopyDoc(r.fs.f, i) = CopyDoc(files, i)

\* C9: on a sandbox whose manifests were rewritten, write_manifest_semver_with_paths
\* run once more returns without a panic and leaves every manifest, and so
\* every dependency entry, as it was.
C9_PathRewriteIdempotent ==
    tp.state = "live" =>
        RewriteChangesNothing(
            write_manifest_semver_with_paths([f |-> files, d |-> dirs],
                                             tp.manifest_paths, Len(tp.manifest_paths)))

C9_Witness ==
    /\ tp.state = "live"
    /\ \E i \in Copies : SomeEntry(CopyDoc(files, i), IsAbsolutePathEntry)
    /\ \E i \in Copies : SomeEntry(CopyDoc(files, i), HasRelativePath)
====
